---- MODULE Spec2Model ----
(***************************************************************************)
(* Sync Assist call-event pipeline (STANDALONE_AI_CALLING_SERVICE.md):     *)
(*   ElevenLabsController::handleWebhook / verifySignature,                *)
(*   the queue worker (queue:work redis --tries=3),                        *)
(*   ProcessElevenLabsWebhook::handle,                                     *)
(*   OpenAIService::analyzeCallSummaryForInterestLevel.                    *)
(***************************************************************************)
EXTENDS Integers, Sequences, FiniteSets, Bags, TLC

(***************************************************************************)
(* Bounds of the model                                                     *)
(***************************************************************************)
\* number of webhook requests the voice platform sends in one behaviour
MaxWebhooks == 2
\* number of times the calendar date changes in one behaviour
MaxDayChanges == 1
\* number of failures (storage, database, network, killed worker) the
\* environment injects in one behaviour
MaxFaults == 1

VARIABLES
    webhooks,   \* webhook requests received so far
    lastReq,    \* the last webhook request (raw body, signature header)
    lastResp,   \* the response handleWebhook gave to it
    jobs,       \* the queue: every dispatched ProcessElevenLabsWebhook job
    workers,    \* the queue:work processes, each inside or outside handle()
    storage,    \* the Storage disk: key -> content
    notes,      \* the notes table (a bag of rows)
    pivot,      \* the contact_property table: <<contact_id, property_id>> -> row
    dayChanges, \* how often the date has changed; date('Y/m/d') follows it
    faults,     \* failures injected so far
    cls,        \* a stand-alone call of the Classification Client
    provider,   \* the dynamic-variable provider: its cache, clock, last exchange
    dash        \* the Dashboard component: its state and the run of its effect

pipelineVars == <<webhooks, lastReq, lastResp, jobs, workers, storage, notes,
                  pivot, dayChanges, faults>>
vars == <<webhooks, lastReq, lastResp, jobs, workers, storage, notes, pivot,
          dayChanges, faults, cls, provider, dash>>

(***************************************************************************)
(* OpenAIService::analyzeCallSummaryForInterestLevel                       *)
(***************************************************************************)
\* A PHP value that is the boolean true (json_decode of the JSON literal
\* true); every other value of interest_level below is a PHP string.
JsonTrue == "<bool:true>"

\* $backoff = [1, 2, 4]
backoff == <<1, 2, 4>>

\* the enum list of the in_array call
AllowedLevels == {"unknown", "cold", "warm", "hot"}

\* values the reasoning service may put under interest_level
LevelValues == AllowedLevels \cup {"maybe", "HOT", JsonTrue}
\* values the reasoning service may put under interest_score
ScoreValues == {-5, 0, 88, 100, 150}
RationaleValues == {"keen buyer"}
KeyNames == {"interest_level", "interest_score", "rationale"}

\* json_decode($content, true): parses = FALSE is null (content missing, not
\* JSON, or JSON wrapped in prose); otherwise an array holding `keys`.
\* A key that is absent carries a fixed filler value that is never read.
NoContent == [parses |-> FALSE, keys |-> {}, interest_level |-> "unknown",
              interest_score |-> 0, rationale |-> "keen buyer"]

Contents ==
    { NoContent }
    \cup
    { [parses |-> TRUE, keys |-> k, interest_level |-> l,
       interest_score |-> s, rationale |-> r] :
         k \in SUBSET KeyNames, l \in LevelValues, s \in ScoreValues,
         r \in RationaleValues }

\* one record per decoded value (the filler of an absent key is fixed)
NormalContents ==
    { c \in Contents :
        /\ ("interest_level" \notin c.keys => c.interest_level = "unknown")
        /\ ("interest_score" \notin c.keys => c.interest_score = 0) }

\* HTTP statuses the reasoning service answers with
Statuses == {200, 302, 400, 404, 429, 500, 503}

\* One answer to one POST: transport = "error" is a connection failure or
\* timeout (Http::post throws ConnectionException); otherwise a response.
Responses ==
    { [transport |-> "ok", status |-> 200, content |-> c] : c \in NormalContents }
    \cup { [transport |-> "ok", status |-> s, content |-> NoContent] :
             s \in Statuses \ {200} }
    \cup { [transport |-> "error", status |-> 0, content |-> NoContent] }

\* Response::successful(): 2xx
successful(resp) == resp.status >= 200 /\ resp.status < 300
\* Response::failed(): serverError() || clientError()
failed(resp) == resp.status >= 400

\* line 695: $resp->status() >= 500 || $resp->status() == 429
isRetryable_only5xx(resp) == resp.status >= 500
isRetryable_any4xx(resp) == resp.status >= 400
isRetryable(resp) == resp.status >= 500 \/ resp.status = 429

\* PHP null
Null == "<null>"

\* data_get($parsed, $key, $default)
data_get(parsed, key, default) ==
    IF parsed.parses /\ key \in parsed.keys THEN parsed[key] ELSE default

\* PHP 8 loose comparison ($a == $b) of a decoded JSON value with a
\* non-empty, non-numeric string: true equals every non-empty string, a
\* string equals only itself.
looseEq(v, s) == IF v = JsonTrue THEN s # "" ELSE v = s

\* in_array($needle, $haystack) without the strict flag
in_array(needle, haystack) == \E s \in haystack : looseEq(needle, s)

\* max(0, min(100, $n))
clamp(n) == IF n < 0 THEN 0 ELSE IF n > 100 THEN 100 ELSE n

\* line 703: the array returned when no response or a failed response is left
DefaultAnalysis ==
    [interest_level |-> "unknown", interest_score |-> 0,
     rationale |-> "analysis_failed"]

\* lines 706-714: parse and normalise; compact('level','score','rationale')
normalize_wholedefault(content) ==
    IF in_array(data_get(content, "interest_level", Null), AllowedLevels)
    THEN [level |-> content.interest_level,
          score |-> clamp(data_get(content, "interest_score", 0)),
          rationale |-> data_get(content, "rationale", "")]
    ELSE [level |-> "unknown", score |-> 0, rationale |-> "analysis_failed"]
normalize(content) ==
    [level |-> IF in_array(data_get(content, "interest_level", Null),
                           AllowedLevels)
               THEN content.interest_level ELSE "unknown",
     score |-> clamp(data_get(content, "interest_score", 0)),
     rationale |-> data_get(content, "rationale", "")]

\* lines 680-700: the foreach over $backoff. resps[i] is the service's answer
\* to the i-th POST. Yields the last response, the number of POSTs issued and
\* the delays slept, or the exception thrown by the POST.
RECURSIVE retryLoop_noBreak(_, _, _)
retryLoop_noBreak(resps, i, slept) ==
    LET resp == resps[i] IN
    IF resp.transport = "error"
    THEN [threw |-> TRUE, resp |-> resp, requests |-> i, slept |-> slept]
    ELSE IF successful(resp) /\ i < Len(backoff)
    THEN retryLoop_noBreak(resps, i + 1, slept)
    ELSE IF isRetryable(resp) /\ i < Len(backoff)
    THEN retryLoop_noBreak(resps, i + 1, Append(slept, backoff[i]))
    ELSE [threw |-> FALSE, resp |-> resp, requests |-> i,
          slept |-> IF isRetryable(resp) THEN Append(slept, backoff[i])
                    ELSE slept]
RECURSIVE retryLoop(_, _, _)
retryLoop(resps, i, slept) ==
    LET resp == resps[i] IN
    IF resp.transport = "error"
    THEN [threw |-> TRUE, resp |-> resp, requests |-> i, slept |-> slept]
    ELSE IF successful(resp)
    THEN [threw |-> FALSE, resp |-> resp, requests |-> i, slept |-> slept]
    ELSE IF isRetryable(resp)
    THEN IF i < Len(backoff)
         THEN retryLoop(resps, i + 1, Append(slept, backoff[i]))
         ELSE [threw |-> FALSE, resp |-> resp, requests |-> i,
               slept |-> Append(slept, backoff[i])]
    ELSE [threw |-> FALSE, resp |-> resp, requests |-> i, slept |-> slept]

\* lines 674-715. The summary only enters the prompt.
analyzeCallSummaryForInterestLevel(summary, resps) ==
    LET loop == retryLoop(resps, 1, <<>>) IN
    IF loop.threw
    THEN [outcome |-> "throw", value |-> DefaultAnalysis,
          requests |-> loop.requests, slept |-> loop.slept, last |-> loop.resp]
    ELSE IF failed(loop.resp)
    THEN [outcome |-> "return", value |-> DefaultAnalysis,
          requests |-> loop.requests, slept |-> loop.slept, last |-> loop.resp]
    ELSE [outcome |-> "return", value |-> normalize(loop.resp.content),
          requests |-> loop.requests, slept |-> loop.slept, last |-> loop.resp]


(***************************************************************************)
(* The webhook payload and the tables it refers to                         *)
(***************************************************************************)
\* rows of the contacts and properties tables
ContactIds == {1}
PropertyIds == {2}

\* $request->all(): a key that is missing reads as '' / 0 in handle()
\* ($data['conversation_id'] ?? '', (int) ($data['contact_id'] ?? 0)).
Event(c, s, t, u, ci, pi) ==
    [conversation_id |-> c, summary |-> s, transcript |-> t,
     recording_url |-> u, contact_id |-> ci, property_id |-> pi]

\* the events the voice platform reports: a complete one, one without a
\* conversation identifier, and one naming a listing that does not exist
Events ==
    { Event("c1", "very interested, wants inspection", "transcript text",
            "https://rec/1.mp3", 1, 2),
      Event("", "very interested, wants inspection", "transcript text",
            "", 1, 2),
      Event("c2", "call me back", "", "", 1, 9) }

NoEvent == Event("", "", "", "", 0, 0)

(***************************************************************************)
(* ElevenLabsController::handleWebhook / verifySignature                   *)
(***************************************************************************)
\* config('services.elevenlabs.webhook_secret'), and a secret that is not it
webhook_secret == "whsec_shared"
WrongSecret == "whsec_other"

\* The raw request body: the bytes of a JSON document. Two bodies with the
\* same JSON value and different bytes differ in `bytes`.
RawBody(e, b) == [json |-> e, bytes |-> b]
RawBodies == { RawBody(e, "as sent") : e \in Events }

\* json_encode(json_decode($body)): the same JSON value, other bytes
reserialize(body) == RawBody(body.json, "re-encoded")

\* hash_hmac('sha256', $data, $key, true): a MAC is determined by the data
\* and the key, and distinct (data, key) give distinct MACs.
hash_hmac(data, key) == [data |-> data, key |-> key]
\* base64_encode is one-to-one: a text is identified with what it encodes
base64_encode(bin) == bin

\* the string '' (the base64 text of a MAC is never empty)
EmptyString == [data |-> RawBody(NoEvent, ""), key |-> ""]

\* the X-ElevenLabs-Signature header: absent, or present with a text
Headers(body) ==
    { [present |-> FALSE, text |-> EmptyString],
      [present |-> TRUE, text |-> EmptyString],
      [present |-> TRUE, text |-> base64_encode(hash_hmac(body, webhook_secret))],
      [present |-> TRUE, text |-> base64_encode(hash_hmac(body, WrongSecret))],
      [present |-> TRUE,
       text |-> base64_encode(hash_hmac(reserialize(body), webhook_secret))] }

\* (string) $request->header(...): null casts to ''
strval(header) == IF header.present THEN header.text ELSE EmptyString

hash_equals(known, user) == known = user

\* lines 756-763: TRUE when abort_unless lets the request through
verifySignature_reencoded(request) ==
    hash_equals(base64_encode(hash_hmac(reserialize(request.content), webhook_secret)),
                strval(request.header))
verifySignature(request) ==
    LET secret == webhook_secret
        sig == request.header
        payload == request.content
        calc == base64_encode(hash_hmac(payload, secret))
    IN hash_equals(calc, strval(sig))

\* a job as the queue holds it
Job(payload) == [payload |-> payload, attempts |-> 0, state |-> "ready"]

\* ProcessElevenLabsWebhook::dispatch($payload) on the redis connection
dispatch_twice(queue, payload) == Append(Append(queue, Job(payload)), Job(payload))
dispatch(queue, payload) == Append(queue, Job(payload))

NoRequest == [content |-> RawBody(NoEvent, ""),
              header |-> [present |-> FALSE, text |-> EmptyString]]
NoResponse == [status |-> 0, json |-> ""]

\* lines 736-741
handleWebhook(body, header) ==
    LET request == [content |-> body, header |-> header] IN
    /\ webhooks < MaxWebhooks
    /\ webhooks' = webhooks + 1
    /\ lastReq' = request
    /\ IF verifySignature(request)
       THEN /\ jobs' = dispatch(jobs, request.content.json)
            /\ lastResp' = [status |-> 200, json |-> "accepted"]
       ELSE /\ jobs' = jobs
            /\ lastResp' = [status |-> 401, json |-> ""]
    /\ UNCHANGED <<workers, storage, notes, pivot, dayChanges, faults, cls, provider, dash>>

(***************************************************************************)
(* The queue worker: queue:work redis --sleep=3 --tries=3                   *)
(***************************************************************************)
\* --tries=3
MaxTries == 3

Idle == [pc |-> "idle", job |-> 0, transcriptPath |-> Null,
         recordingPath |-> Null, analysis |-> DefaultAnalysis,
         level |-> "unknown", score |-> 0,
         attached |-> FALSE, steps |-> <<>>]

\* date('Y/m/d')
Dates == <<"2026/11/06", "2026/11/07", "2026/11/08", "2026/11/09">>
today == Dates[dayChanges + 1]

SetJob(j, st) == [jobs EXCEPT ![j].state = st]

\* The worker takes a ready job and counts the attempt; a job whose attempts
\* then exceed --tries is marked failed instead of being run.
Pop(w, j) ==
    /\ workers[w].pc = "idle"
    /\ j \in DOMAIN jobs
    /\ jobs[j].state = "ready"
    /\ IF jobs[j].attempts + 1 > MaxTries
       THEN /\ jobs' = [jobs EXCEPT ![j].attempts = @ + 1, ![j].state = "failed"]
            /\ UNCHANGED workers
       ELSE /\ jobs' = [jobs EXCEPT ![j].attempts = @ + 1, ![j].state = "reserved"]
            /\ workers' = [workers EXCEPT ![w] = [Idle EXCEPT !.pc = "transcript", !.job = j]]
    /\ UNCHANGED <<webhooks, lastReq, lastResp, storage, notes, pivot, dayChanges, faults, cls, provider, dash>>

\* handle() threw: the job is released for another attempt, or marked failed
\* when this was attempt number --tries.
afterException_deleted(job) == "done"
afterException_failFirst(job) == "failed"
afterException(job) == IF job.attempts >= MaxTries THEN "failed" ELSE "ready"

\* the worker process was killed inside handle(): the reserved job becomes
\* available again when its reservation expires (retry_after)
afterKill(job) == "ready"

\* handle() returned: the worker deletes the job
afterReturn(job) == "done"

\* the environment makes an operation fail / lets it succeed
Fault == faults < MaxFaults /\ faults' = faults + 1
NoFault == faults' = faults

Throws(w) ==
    /\ jobs' = SetJob(workers[w].job, afterException(jobs[workers[w].job]))
    /\ workers' = [workers EXCEPT ![w] = Idle]

Step(w, name, next) ==
    [workers[w] EXCEPT !.pc = next, !.steps = Append(@, name)]

Payload(w) == jobs[workers[w].job].payload

Put(disk, key, content) ==
    [k \in DOMAIN disk \cup {key} |-> IF k = key THEN content ELSE disk[k]]

(***************************************************************************)
(* ProcessElevenLabsWebhook::handle                                        *)
(***************************************************************************)
TranscriptKey(date, conversationId) ==
    "calls/" \o date \o "/" \o conversationId \o "-transcript.txt"
RecordingKey(date, conversationId) ==
    "calls/" \o date \o "/" \o conversationId \o "-recording.mp3"

\* lines 846-851. Storage::put either writes, or fails: it then returns false
\* (the disk's default) or throws (a disk configured with throw).
PersistTranscript(w, outcome) ==
    /\ workers[w].pc = "transcript"
    /\ LET data == Payload(w)
           transcriptPath == TranscriptKey(today, data.conversation_id)
       IN IF data.transcript = ""
          THEN /\ outcome = "written"
               /\ NoFault
               /\ workers' = [workers EXCEPT ![w] = Step(w, "transcript", "recording")]
               /\ UNCHANGED <<jobs, storage>>
          ELSE CASE outcome = "written" ->
                    /\ NoFault
                    /\ storage' = Put(storage, transcriptPath, data.transcript)
                    /\ workers' = [workers EXCEPT ![w] =
                          [Step(w, "transcript", "recording") EXCEPT
                              !.transcriptPath = transcriptPath]]
                    /\ UNCHANGED jobs
                 [] outcome = "false" ->
                    /\ Fault
                    /\ workers' = [workers EXCEPT ![w] =
                          [Step(w, "transcript", "recording") EXCEPT
                              !.transcriptPath = transcriptPath]]
                    /\ UNCHANGED <<jobs, storage>>
                 [] outcome = "throw" ->
                    /\ Fault
                    /\ Throws(w)
                    /\ UNCHANGED storage
    /\ UNCHANGED <<webhooks, lastReq, lastResp, notes, pivot, dayChanges, cls, provider, dash>>

\* lines 853-865. Everything inside the try is swallowed: a failed GET leaves
\* $recordingPath null; a failed put leaves it set (it is assigned first).
DownloadRecording(w, outcome) ==
    /\ workers[w].pc = "recording"
    /\ LET data == Payload(w)
           recordingPath == RecordingKey(today, data.conversation_id)
       IN IF data.recording_url = ""
          THEN /\ outcome = "stored"
               /\ NoFault
               /\ workers' = [workers EXCEPT ![w] = Step(w, "recording", "note")]
               /\ UNCHANGED storage
          ELSE CASE outcome = "stored" ->
                    /\ NoFault
                    /\ storage' = Put(storage, recordingPath, "audio")
                    /\ workers' = [workers EXCEPT ![w] =
                          [Step(w, "recording", "note") EXCEPT
                              !.recordingPath = recordingPath]]
                 [] outcome = "get_failed" ->
                    /\ Fault
                    /\ workers' = [workers EXCEPT ![w] = Step(w, "recording", "note")]
                    /\ UNCHANGED storage
                 [] outcome = "put_failed" ->
                    /\ Fault
                    /\ workers' = [workers EXCEPT ![w] =
                          [Step(w, "recording", "note") EXCEPT
                              !.recordingPath = recordingPath]]
                    /\ UNCHANGED storage
    /\ UNCHANGED <<webhooks, lastReq, lastResp, jobs, notes, pivot, dayChanges, cls, provider, dash>>

\* $a ?: $b
Elvis(a, b) == IF a = "" THEN b ELSE a

\* Contact::find($contactId) ?: Property::find($propertyId)
Notable_propertyFirst(contactId, propertyId) ==
    IF propertyId \in PropertyIds
    THEN [type |-> "App\\Models\\Property", id |-> propertyId]
    ELSE IF contactId \in ContactIds
    THEN [type |-> "App\\Models\\Contact", id |-> contactId]
    ELSE [type |-> Null, id |-> 0]
Notable(contactId, propertyId) ==
    IF contactId \in ContactIds
    THEN [type |-> "App\\Models\\Contact", id |-> contactId]
    ELSE IF propertyId \in PropertyIds
    THEN [type |-> "App\\Models\\Property", id |-> propertyId]
    ELSE [type |-> Null, id |-> 0]

\* lines 870-882: the row Note::create inserts
NoteRow_derivedRecording(data, notable, recordingPath, transcriptPath) ==
    [notable_type |-> notable.type,
     notable_id |-> notable.id,
     type |-> "call_summary",
     title |-> "AI Call Summary",
     body |-> Elvis(data.summary, Null),
     conversation_id |-> Elvis(data.conversation_id, Null),
     recording_path |-> IF data.recording_url = "" THEN Null
                        ELSE RecordingKey(today, data.conversation_id),
     transcript_path |-> transcriptPath]
NoteRow(data, notable, recordingPath, transcriptPath) ==
    [notable_type |-> notable.type,
     notable_id |-> notable.id,
     type |-> "call_summary",
     title |-> "AI Call Summary",
     body |-> Elvis(data.summary, Null),
     conversation_id |-> Elvis(data.conversation_id, Null),
     recording_path |-> recordingPath,
     transcript_path |-> transcriptPath]

\* lines 867-883
CreateNote(w, outcome) ==
    /\ workers[w].pc = "note"
    /\ LET data == Payload(w)
           notable == Notable(data.contact_id, data.property_id)
       IN CASE outcome = "throw" ->
               /\ Fault
               /\ Throws(w)
               /\ UNCHANGED notes
            [] outcome = "ok" /\ notable.type # Null ->
               /\ NoFault
               /\ notes' = notes (+) SetToBag({
                     NoteRow(data, notable, workers[w].recordingPath,
                             workers[w].transcriptPath) })
               /\ workers' = [workers EXCEPT ![w] = Step(w, "note", "analysis")]
               /\ UNCHANGED jobs
            [] outcome = "ok" /\ notable.type = Null ->
               /\ NoFault
               /\ workers' = [workers EXCEPT ![w] = Step(w, "note", "analysis")]
               /\ UNCHANGED <<jobs, notes>>
    /\ UNCHANGED <<webhooks, lastReq, lastResp, storage, pivot, dayChanges, cls, provider, dash>>

\* $array[$key] ?? $default
Coalesce_prefixed(array, key, default) ==
    IF ("interest_" \o key) \in DOMAIN array
    THEN array["interest_" \o key] ELSE default
Coalesce(array, key, default) ==
    IF key \in DOMAIN array THEN array[key] ELSE default

\* the reasoning service's answers while a job runs
Answer(status, keys, level, score) ==
    [transport |-> "ok", status |-> status,
     content |-> [parses |-> keys # {}, keys |-> keys, interest_level |-> level,
                  interest_score |-> score, rationale |-> "keen buyer"]]
ConnectionError == [transport |-> "error", status |-> 0, content |-> NoContent]
ServerError == [transport |-> "ok", status |-> 500, content |-> NoContent]

JobAnswers ==
    { <<Answer(200, KeyNames, "hot", 88), ServerError, ServerError>>,
      <<ServerError, Answer(200, KeyNames, "cold", 150), ServerError>>,
      <<ServerError, ServerError, ServerError>>,
      <<ConnectionError, ServerError, ServerError>> }

\* lines 890-892: the guard of the pivot update and Contact::find
UpdatesPivot(data) ==
    data.contact_id # 0 /\ data.property_id # 0 /\ data.contact_id \in ContactIds

\* lines 885-893: the interest analysis, then the guard, Contact::find and the
\* read of the attached ids that syncWithoutDetaching starts with
Analyse(w, resps, outcome) ==
    /\ workers[w].pc = "analysis"
    /\ LET data == Payload(w)
           analysis == analyzeCallSummaryForInterestLevel(data.summary, resps)
           level == Coalesce(analysis.value, "level", "unknown")
           score == Coalesce(analysis.value, "score", 0)
       IN CASE analysis.outcome = "throw" \/ outcome = "throw" ->
               /\ Fault
               /\ Throws(w)
            [] analysis.outcome = "return" /\ outcome = "ok" /\ UpdatesPivot(data) ->
               /\ NoFault
               /\ workers' = [workers EXCEPT ![w] =
                     [Step(w, "analysis", "sync") EXCEPT
                         !.analysis = analysis.value,
                         !.level = level, !.score = score,
                         !.attached = <<data.contact_id, data.property_id>>
                                         \in DOMAIN pivot]]
               /\ UNCHANGED jobs
            [] analysis.outcome = "return" /\ outcome = "ok" /\ ~UpdatesPivot(data) ->
               /\ NoFault
               /\ workers' = [workers EXCEPT ![w] =
                     [workers[w] EXCEPT !.pc = "handled",
                         !.analysis = analysis.value,
                         !.level = level, !.score = score,
                         !.steps = @ \o <<"analysis", "association">>]]
               /\ UNCHANGED jobs
    /\ UNCHANGED <<webhooks, lastReq, lastResp, storage, notes, pivot, dayChanges, cls, provider, dash>>

\* lines 893-900: syncWithoutDetaching updates the pivot row of an id it read
\* as attached and inserts one otherwise; the insert fails on the unique index
\* (contact_id, property_id) and on the foreign key to properties.
SyncWrite_attach(w, outcome) ==
    /\ workers[w].pc = "sync"
    /\ LET data == Payload(w)
           pair == <<data.contact_id, data.property_id>>
           row == [interest_level |-> workers[w].level,
                   interest_score |-> workers[w].score,
                   last_contacted_at |-> today,
                   last_conversation_id |-> data.conversation_id]
       IN IF outcome = "throw"
          THEN /\ Fault
               /\ Throws(w)
               /\ UNCHANGED pivot
          ELSE IF \/ pair \in DOMAIN pivot
                  \/ data.property_id \notin PropertyIds
          THEN /\ NoFault
               /\ Throws(w)
               /\ UNCHANGED pivot
          ELSE /\ NoFault
               /\ pivot' = Put(pivot, pair, row)
               /\ workers' = [workers EXCEPT ![w] = Step(w, "association", "handled")]
               /\ UNCHANGED jobs
    /\ UNCHANGED <<webhooks, lastReq, lastResp, storage, notes, dayChanges, cls, provider, dash>>
SyncWrite_insertOnly(w, outcome) ==
    /\ workers[w].pc = "sync"
    /\ LET data == Payload(w)
           pair == <<data.contact_id, data.property_id>>
           row == [interest_level |-> workers[w].level,
                   interest_score |-> workers[w].score,
                   last_contacted_at |-> today,
                   last_conversation_id |-> data.conversation_id]
       IN IF outcome = "throw"
          THEN /\ Fault
               /\ Throws(w)
               /\ UNCHANGED pivot
          ELSE IF \/ (~workers[w].attached /\ pair \in DOMAIN pivot)
                  \/ (~workers[w].attached /\ data.property_id \notin PropertyIds)
          THEN /\ NoFault
               /\ Throws(w)
               /\ UNCHANGED pivot
          ELSE /\ NoFault
               /\ pivot' = IF workers[w].attached THEN pivot
                           ELSE Put(pivot, pair, row)
               /\ workers' = [workers EXCEPT ![w] = Step(w, "association", "handled")]
               /\ UNCHANGED jobs
    /\ UNCHANGED <<webhooks, lastReq, lastResp, storage, notes, dayChanges, cls, provider, dash>>
SyncWrite(w, outcome) ==
    /\ workers[w].pc = "sync"
    /\ LET data == Payload(w)
           pair == <<data.contact_id, data.property_id>>
           row == [interest_level |-> workers[w].level,
                   interest_score |-> workers[w].score,
                   last_contacted_at |-> today,
                   last_conversation_id |-> data.conversation_id]
       IN IF outcome = "throw"
          THEN /\ Fault
               /\ Throws(w)
               /\ UNCHANGED pivot
          ELSE IF \/ (~workers[w].attached /\ pair \in DOMAIN pivot)
                  \/ (~workers[w].attached /\ data.property_id \notin PropertyIds)
          THEN /\ NoFault
               /\ Throws(w)
               /\ UNCHANGED pivot
          ELSE /\ NoFault
               /\ pivot' = Put(pivot, pair, row)
               /\ workers' = [workers EXCEPT ![w] = Step(w, "association", "handled")]
               /\ UNCHANGED jobs
    /\ UNCHANGED <<webhooks, lastReq, lastResp, storage, notes, dayChanges, cls, provider, dash>>

\* handle() returned without an exception: the job is deleted from the queue
Ack_early(w) ==
    /\ workers[w].pc \in {"sync", "handled"}
    /\ jobs' = SetJob(workers[w].job, afterReturn(jobs[workers[w].job]))
    /\ workers' = [workers EXCEPT ![w] = Idle]
    /\ UNCHANGED <<webhooks, lastReq, lastResp, storage, notes, pivot, dayChanges, faults, cls, provider, dash>>
Ack(w) ==
    /\ workers[w].pc = "handled"
    /\ jobs' = SetJob(workers[w].job, afterReturn(jobs[workers[w].job]))
    /\ workers' = [workers EXCEPT ![w] = Idle]
    /\ UNCHANGED <<webhooks, lastReq, lastResp, storage, notes, pivot, dayChanges, faults, cls, provider, dash>>

\* the worker process dies (killed, out of memory, --max-time) inside handle()
Kill(w) ==
    /\ workers[w].pc # "idle"
    /\ Fault
    /\ jobs' = SetJob(workers[w].job, afterKill(jobs[workers[w].job]))
    /\ workers' = [workers EXCEPT ![w] = Idle]
    /\ UNCHANGED <<webhooks, lastReq, lastResp, storage, notes, pivot, dayChanges, cls, provider, dash>>

\* midnight passes
NextDay ==
    /\ dayChanges < MaxDayChanges
    /\ dayChanges' = dayChanges + 1
    /\ UNCHANGED <<webhooks, lastReq, lastResp, jobs, workers, storage, notes, pivot, faults, cls, provider, dash>>

(***************************************************************************)
(* The Classification Client on its own: one call per step, the reasoning  *)
(* service's answers drawn from ClsInputs.                                 *)
(***************************************************************************)
Summaries == {"", "very interested, wants inspection"}

TransientResponses ==
    { r \in Responses : r.transport = "ok" /\ r.status \in {429, 500, 503} }

\* an answer that is never requested
Unread == [transport |-> "ok", status |-> 200, content |-> NoContent]

\* The answers to the three possible POSTs: a run of transient failures, then
\* any answer; answers behind a final one are never requested.
ClsInputs ==
    { <<a, Unread, Unread>> : a \in Responses }
    \cup { <<a, b, Unread>> : a \in TransientResponses, b \in Responses }
    \cup { <<a, b, c>> : a \in TransientResponses, b \in TransientResponses,
                         c \in Responses }

ClsIdle == [phase |-> "idle", summary |-> "", resps |-> <<Unread, Unread, Unread>>,
            out |-> [outcome |-> "none", value |-> DefaultAnalysis, requests |-> 0,
                     slept |-> <<>>, last |-> Unread]]

ClsInvoke(summary, resps) ==
    /\ cls.phase = "idle"
    /\ cls' = [phase |-> "done", summary |-> summary, resps |-> resps,
               out |-> analyzeCallSummaryForInterestLevel(summary, resps)]
    /\ UNCHANGED <<pipelineVars, provider, dash>>

(***************************************************************************)
(* ElevenLabsService::initiateOutboundCall and                             *)
(* ElevenLabsController::conversationInitiationClientData                  *)
(***************************************************************************)
\* now()->addMinutes(15)
CacheTtlMinutes == 15

\* the instants, in minutes, at which calls are initiated and requests arrive
Times == {0, 10, 20}

\* conversation identifiers as the callers write them
InitiatorIds == {"", "c1", " c1 ", "  "}
RequestIds == {"", "c1", " c1 ", "c9"}

\* Str::of($s)->trim()
trim(s) == CASE s = " c1 " -> "c1" [] s = "  " -> "" [] OTHER -> s

\* ElevenLabsService::cacheKey
cacheKey(conversationId) == "el_client_data:" \o trim(conversationId)

\* line 746: the key conversationInitiationClientData reads
clientDataKey(conversationId) == "el_client_data:" \o trim(conversationId)

\* PHP empty() of a string of the model
empty(s) == s = "" \/ s = "0"

\* A variable set. empty = TRUE is the array [] (what 'client_data' ?? []
\* yields when the caller passes none).
NoData == [empty |-> TRUE, first_name |-> "", address |-> "",
           contact_id |-> "", property_id |-> ""]
\* the variable set the caller built when the call was placed
CallData == [empty |-> FALSE, first_name |-> "Ann",
             address |-> "1 High St (as listed at call time)",
             contact_id |-> "1", property_id |-> "2"]

\* rows of the contacts and properties tables
ContactRow(id) == [id |-> id, first_name |-> "Ann"]
PropertyRow(id) == [id |-> id, address |-> "1 High St"]

\* lines 765-794 (the fields kept: one of the lead, one of the listing, the ids)
buildClientData(contact, property) ==
    [empty |-> FALSE, first_name |-> contact.first_name,
     address |-> property.address,
     contact_id |-> ToString(contact.id), property_id |-> ToString(property.id)]

\* Cache::put($key, $value, now()->addMinutes(15))
CachePut(cache, key, value, now) ==
    Put(cache, key, [value |-> value, stored_at |-> now,
                     expires |-> now + CacheTtlMinutes])

\* Cache::get($key): null once the entry has expired or when there is none
CacheGet(cache, key, now) ==
    IF key \in DOMAIN cache /\ now < cache[key].expires
    THEN [null |-> FALSE, value |-> cache[key].value]
    ELSE [null |-> TRUE, value |-> NoData]

\* if ($cached): null and the empty array are falsy
Truthy(cached) == ~cached.null /\ ~cached.value.empty

\* numbers the callers dial: an Australian mobile, a number that is too
\* short, a text, and a number under a country code that does not exist
Phones == {"0412 345 678", "0412", "not a number", "+99912345678"}

\* PhoneNumberUtil::parse($raw, 'AU') on the numbers of the model and their
\* formatted forms: the parsed number (its E.164 form, isValidNumber), or
\* NumberParseException
PhoneNumberUtil_parse(raw) ==
    CASE raw \in {"0412 345 678", "+61412345678"} ->
            [throws |-> FALSE, e164 |-> "+61412345678", valid |-> TRUE]
      [] raw \in {"0412", "+61412"} ->
            [throws |-> FALSE, e164 |-> "+61412", valid |-> FALSE]
      [] OTHER -> [throws |-> TRUE, e164 |-> "", valid |-> FALSE]

\* Str::startsWith($raw, '+')
startsWithPlus(raw) == raw \in {"+61412345678", "+61412", "+99912345678",
                                "+not a number"}

\* ltrim($raw, '0') on the numbers that reach it
ltrim0(raw) == raw

\* preg_match('/^\+?[1-9]\d{7,14}$/', $raw) === 1
matchesE164Pattern(raw) == raw \in {"+61412345678", "+99912345678"}

\* lines 639-650
formatPhoneNumber(raw) ==
    LET num == PhoneNumberUtil_parse(raw) IN
    IF ~num.throws THEN num.e164
    ELSE IF startsWithPlus(raw) THEN raw ELSE "+" \o ltrim0(raw)

\* lines 652-661
isValidPhoneNumber(raw) ==
    LET num == PhoneNumberUtil_parse(raw) IN
    IF ~num.throws THEN num.valid ELSE matchesE164Pattern(raw)

CallArgs ==
    { [to |-> t, client_data |-> d, conversation_id |-> c] :
        t \in Phones, d \in {NoData, CallData}, c \in InitiatorIds }

\* the last call of initiateOutboundCall: the number it was given, how it
\* ended, whether the POST to the voice platform was sent
NoCall == [to |-> "", outcome |-> "none", posted |-> FALSE]

\* lines 603-632. accepted: the voice platform's answer to the POST did not
\* fail.
initiateOutboundCall_postFirst(args, accepted) ==
    LET to == formatPhoneNumber(args.to) IN
    /\ provider' =
         IF ~accepted
         THEN [provider EXCEPT !.call = [to |-> args.to,
                                         outcome |-> "RuntimeException",
                                         posted |-> TRUE]]
         ELSE IF ~isValidPhoneNumber(to)
         THEN [provider EXCEPT !.call = [to |-> args.to,
                                         outcome |-> "InvalidArgumentException",
                                         posted |-> TRUE]]
         ELSE [provider EXCEPT
                 !.call = [to |-> args.to, outcome |-> "returned",
                           posted |-> TRUE],
                 !.cache = IF ~empty(args.conversation_id)
                           THEN CachePut(@, cacheKey(args.conversation_id),
                                         args.client_data, provider.clock)
                           ELSE @,
                 !.origin = IF ~empty(args.conversation_id)
                            THEN Put(@, cacheKey(args.conversation_id),
                                     args.conversation_id)
                            ELSE @]
    /\ UNCHANGED <<pipelineVars, cls, dash>>
initiateOutboundCall_cacheFirst(args, accepted) ==
    LET to == formatPhoneNumber(args.to) IN
    /\ provider' =
         IF ~isValidPhoneNumber(to)
         THEN [provider EXCEPT !.call = [to |-> args.to,
                                         outcome |-> "InvalidArgumentException",
                                         posted |-> FALSE]]
         ELSE [provider EXCEPT
                 !.call = [to |-> args.to,
                           outcome |-> IF accepted THEN "returned"
                                       ELSE "RuntimeException",
                           posted |-> TRUE],
                 !.cache = IF ~empty(args.conversation_id)
                           THEN CachePut(@, cacheKey(args.conversation_id),
                                         args.client_data, provider.clock)
                           ELSE @,
                 !.origin = IF ~empty(args.conversation_id)
                            THEN Put(@, cacheKey(args.conversation_id),
                                     args.conversation_id)
                            ELSE @]
    /\ UNCHANGED <<pipelineVars, cls, dash>>
initiateOutboundCall(args, accepted) ==
    LET to == formatPhoneNumber(args.to) IN
    /\ provider' =
         IF ~isValidPhoneNumber(to)
         THEN [provider EXCEPT !.call = [to |-> args.to,
                                         outcome |-> "InvalidArgumentException",
                                         posted |-> FALSE]]
         ELSE IF ~accepted
         THEN [provider EXCEPT !.call = [to |-> args.to,
                                         outcome |-> "RuntimeException",
                                         posted |-> TRUE]]
         ELSE [provider EXCEPT
                 !.call = [to |-> args.to, outcome |-> "returned",
                           posted |-> TRUE],
                 !.cache = IF ~empty(args.conversation_id)
                           THEN CachePut(@, cacheKey(args.conversation_id),
                                         args.client_data, provider.clock)
                           ELSE @,
                 !.origin = IF ~empty(args.conversation_id)
                            THEN Put(@, cacheKey(args.conversation_id),
                                     args.conversation_id)
                            ELSE @]
    /\ UNCHANGED <<pipelineVars, cls, dash>>

\* ids a dynamic-variable request carries; 0 stands for an absent id
RequestContactIds == {0, 1}
RequestPropertyIds == {2, 9}

ClientDataRequests ==
    { [conversation_id |-> c, contact_id |-> ci, property_id |-> pi] :
        c \in RequestIds, ci \in RequestContactIds, pi \in RequestPropertyIds }

NoClientDataRequest == [conversation_id |-> "", contact_id |-> 0, property_id |-> 0]
NoClientDataResponse == [status |-> 0, has_client_data |-> FALSE,
                         client_data |-> NoData, reads |-> {}]

\* lines 749-753: Contact::findOrFail, Property::findOrFail, buildClientData.
\* reads: the tables queried.
recompute_partial(contact_id, property_id) ==
    IF contact_id \notin ContactIds
    THEN [status |-> 404, has_client_data |-> FALSE, client_data |-> NoData,
          reads |-> {"contacts"}]
    ELSE [status |-> 200, has_client_data |-> TRUE,
          client_data |-> [buildClientData(ContactRow(contact_id), PropertyRow(property_id))
                             EXCEPT !.address = "", !.property_id = ""],
          reads |-> {"contacts", "properties"}]
recompute(contact_id, property_id) ==
    IF contact_id \notin ContactIds
    THEN [status |-> 404, has_client_data |-> FALSE, client_data |-> NoData,
          reads |-> {"contacts"}]
    ELSE IF property_id \notin PropertyIds
    THEN [status |-> 404, has_client_data |-> FALSE, client_data |-> NoData,
          reads |-> {"contacts", "properties"}]
    ELSE [status |-> 200, has_client_data |-> TRUE,
          client_data |-> buildClientData(ContactRow(contact_id),
                                          PropertyRow(property_id)),
          reads |-> {"contacts", "properties"}]

\* lines 743-754
conversationInitiationClientData(request) ==
    LET conversationId == request.conversation_id
        cached == CacheGet(provider.cache, clientDataKey(conversationId),
                           provider.clock)
    IN
    /\ provider' =
         [provider EXCEPT
            !.req = request,
            !.resp = IF Truthy(cached)
                     THEN [status |-> 200, has_client_data |-> TRUE,
                           client_data |-> cached.value, reads |-> {}]
                     ELSE recompute(request.contact_id, request.property_id)]
    /\ UNCHANGED <<pipelineVars, cls, dash>>

\* time passes
Tick(t) ==
    /\ t > provider.clock
    /\ provider' = [provider EXCEPT !.clock = t]
    /\ UNCHANGED <<pipelineVars, cls, dash>>

\* origin: for each cache key, the conversation identifier given to the
\* initiation that last wrote it
ProviderIdle == [clock |-> 0, cache |-> <<>>, origin |-> <<>>, call |-> NoCall,
                 req |-> NoClientDataRequest, resp |-> NoClientDataResponse]

(***************************************************************************)
(* Dashboard.jsx: the component's state and the run of its mount effect    *)
(***************************************************************************)
\* the JavaScript value null
JsNull == [type |-> "null"]

\* statuses the backend answers with; fetch resolves for each of them
HttpStatuses == {200, 404, 500}

\* values r.json() yields for /api/hello: an object with a message, with an
\* empty message, without a message; the JSON value null
HelloBodies ==
    { [type |-> "object", has_message |-> TRUE, message |-> "Hello from API"],
      [type |-> "object", has_message |-> TRUE, message |-> ""],
      [type |-> "object", has_message |-> FALSE, message |-> ""],
      JsNull }

\* values r.json() yields for /test
TestBodies ==
    { [type |-> "object", backend |-> b, database |-> d] :
         b \in {"running", "degraded"},
         d \in {"connected", "unavailable"} }
    \cup { JsNull }

\* await fetch(url).then(r => r.json()): the promise rejects (the request
\* failed, or the body is not JSON) or yields the parsed body; the status of
\* the response is never looked at
Rejected == [settled |-> "rejected", status |-> 0, body |-> JsNull]
Fetched(bodies) ==
    { [settled |-> "fulfilled", status |-> s, body |-> b] :
         s \in HttpStatuses, b \in bodies }
    \cup { Rejected }

NotFetched == [settled |-> "pending", status |-> 0, body |-> JsNull]

\* r1.message || 'OK'
MessageOrOK(r1) ==
    IF r1.has_message /\ r1.message # "" THEN r1.message ELSE "OK"

\* lines 39-40: useState('Loading...'), useState(null); the effect is about
\* to run
DashMounted == [pc |-> "hello", hello |-> "Loading...", health |-> JsNull,
                r1 |-> NotFetched, r2 |-> NotFetched]

\* lines 50-53: the catch block
catch_keepHello(d) == [d EXCEPT !.pc = "done", !.health = JsNull]
catch(d) ==
    [d EXCEPT !.pc = "done", !.hello = "Backend not reachable",
              !.health = JsNull]

\* lines 46-47: reading r1.message of null throws a TypeError
DashHello(r1) ==
    /\ dash.pc = "hello"
    /\ dash' = IF r1.settled = "rejected" \/ r1.body = JsNull
               THEN catch([dash EXCEPT !.r1 = r1])
               ELSE [dash EXCEPT !.pc = "test", !.r1 = r1,
                                 !.hello = MessageOrOK(r1.body)]
    /\ UNCHANGED <<pipelineVars, cls, provider>>

\* lines 48-49
DashTest(r2) ==
    /\ dash.pc = "test"
    /\ dash' = IF r2.settled = "rejected"
               THEN catch([dash EXCEPT !.r2 = r2])
               ELSE [dash EXCEPT !.pc = "done", !.r2 = r2,
                                 !.health = r2.body]
    /\ UNCHANGED <<pipelineVars, cls, provider>>

(***************************************************************************)
(* Specifications                                                          *)
(***************************************************************************)
\* the state after deployment with the worker processes ws
InitWith(ws) ==
    /\ webhooks = 0
    /\ lastReq = NoRequest
    /\ lastResp = NoResponse
    /\ jobs = <<>>
    /\ workers = [w \in ws |-> Idle]
    /\ storage = <<>>
    /\ notes = EmptyBag
    /\ pivot = <<>>
    /\ dayChanges = 0
    /\ faults = 0
    /\ cls = ClsIdle
    /\ provider = ProviderIdle
    /\ dash = DashMounted

Init == InitWith({"w1"})

Receive == \E body \in RawBodies : \E header \in Headers(body) : handleWebhook(body, header)

Work ==
    \/ \E w \in DOMAIN workers, j \in 1..MaxWebhooks : Pop(w, j)
    \/ \E w \in DOMAIN workers, o \in {"written", "false", "throw"} : PersistTranscript(w, o)
    \/ \E w \in DOMAIN workers, o \in {"stored", "get_failed", "put_failed"} : DownloadRecording(w, o)
    \/ \E w \in DOMAIN workers, o \in {"ok", "throw"} : CreateNote(w, o)
    \/ \E w \in DOMAIN workers, resps \in JobAnswers, o \in {"ok", "throw"} : Analyse(w, resps, o)
    \/ \E w \in DOMAIN workers, o \in {"ok", "throw"} : SyncWrite(w, o)
    \/ \E w \in DOMAIN workers : Ack(w)
    \/ \E w \in DOMAIN workers : Kill(w)

\* one worker process, the date fixed
Next == Receive \/ Work

Spec == Init /\ [][Next]_vars

NextClassify == \E summary \in Summaries, resps \in ClsInputs : ClsInvoke(summary, resps)

SpecClassify == Init /\ [][NextClassify]_vars

\* the call initiator and the dynamic-variable provider
NextClientData ==
    \/ \E args \in CallArgs, accepted \in BOOLEAN : initiateOutboundCall(args, accepted)
    \/ \E request \in ClientDataRequests : conversationInitiationClientData(request)
    \/ \E t \in Times : Tick(t)

SpecClientData == Init /\ [][NextClientData]_vars

\* two queue:work processes (numprocs > 1), no injected failure, two events
\* of different conversations for the same lead and listing
ConcurrentEvents ==
    { Event("c1", "very interested, wants inspection", "", "", 1, 2),
      Event("c3", "call me back", "", "", 1, 2) }

ReceiveSigned ==
    \E e \in ConcurrentEvents :
        handleWebhook(RawBody(e, "as sent"),
                      [present |-> TRUE,
                       text |-> base64_encode(hash_hmac(RawBody(e, "as sent"),
                                                        webhook_secret))])

WorkUnfailing ==
    \/ \E w \in DOMAIN workers, j \in 1..MaxWebhooks : Pop(w, j)
    \/ \E w \in DOMAIN workers : PersistTranscript(w, "written")
    \/ \E w \in DOMAIN workers : DownloadRecording(w, "stored")
    \/ \E w \in DOMAIN workers : CreateNote(w, "ok")
    \/ \E w \in DOMAIN workers, resps \in JobAnswers : Analyse(w, resps, "ok")
    \/ \E w \in DOMAIN workers : SyncWrite(w, "ok")
    \/ \E w \in DOMAIN workers : Ack(w)

NextConcurrent == ReceiveSigned \/ WorkUnfailing

SpecConcurrent == InitWith({"w1", "w2"}) /\ [][NextConcurrent]_vars

\* one queue:work process, no injected failure; events whose lead and listing
\* both exist, only the listing, neither, only the lead
OwnershipEvents ==
    { Event("c1", "very interested, wants inspection", "transcript text",
            "https://rec/1.mp3", 1, 2),
      Event("c4", "call me back", "", "", 7, 2),
      Event("c5", "call me back", "", "", 7, 9),
      Event("c2", "call me back", "", "", 1, 9) }

ReceiveOwnership ==
    \E e \in OwnershipEvents :
        handleWebhook(RawBody(e, "as sent"),
                      [present |-> TRUE,
                       text |-> base64_encode(hash_hmac(RawBody(e, "as sent"),
                                                        webhook_secret))])

NextUnfailing == ReceiveOwnership \/ WorkUnfailing

SpecUnfailing == Init /\ [][NextUnfailing]_vars

\* the worker process keeps running (supervisor autostart, autorestart):
\* a step of the worker that stays possible is eventually taken
SpecFair == Init /\ [][NextUnfailing]_vars /\ WF_vars(WorkUnfailing)

\* a call is initiated with its variable set cached under the conversation
\* identifier; the call's event arrives and is processed; time passes
LifecycleArgs ==
    { [to |-> "0412 345 678", client_data |-> CallData, conversation_id |-> c] :
        c \in {"c1", "c3"} }

NextLifecycle ==
    \/ \E args \in LifecycleArgs : initiateOutboundCall(args, TRUE)
    \/ ReceiveSigned
    \/ WorkUnfailing
    \/ \E t \in Times : Tick(t)

SpecLifecycle == Init /\ [][NextLifecycle]_vars

\* as SpecUnfailing, and midnight may pass between or within deliveries
NextDays == ReceiveOwnership \/ WorkUnfailing \/ NextDay

SpecDays == Init /\ [][NextDays]_vars

\* one mount of the Dashboard
NextDashboard ==
    \/ \E r1 \in Fetched(HelloBodies) : DashHello(r1)
    \/ \E r2 \in Fetched(TestBodies) : DashTest(r2)

SpecDashboard == Init /\ [][NextDashboard]_vars

(***************************************************************************)
(* Claims about the receiver, the queue and the processor (under Spec)     *)
(***************************************************************************)
\* the rows of the notes table with this conversation_id
NotesFor(c) == { n \in BagToSet(notes) : n.conversation_id = c }

\* C1: after any sequence of deliveries, redeliveries and crash-retries there
\* is at most one Note for any conversation identifier.
C1_AtMostOneNotePerConversation ==
    \A c \in {"c1", "c2"} :
        /\ Cardinality(NotesFor(c)) <= 1
        /\ \A n \in NotesFor(c) : CopiesIn(n, notes) <= 1

\* the step is a webhook request
IsRequest == webhooks' = webhooks + 1

\* the signature header of the request equals the HMAC-SHA256 of the exact
\* raw body under the shared secret
SignatureMatches(request) ==
    /\ request.header.present
    /\ request.header.text = hash_hmac(request.content, "whsec_shared")

\* C2: a request whose signature header is missing or is not the HMAC of the
\* exact raw body under the shared secret is answered 401 and enqueues
\* nothing: the queue is unchanged.
C2_BadSignatureRejected ==
    [][ (IsRequest /\ ~SignatureMatches(lastReq'))
          => (lastResp'.status = 401 /\ jobs' = jobs) ]_vars

C2_Witness ==
    /\ webhooks = 2
    /\ Len(jobs) = 1
    /\ lastReq.header.present
    /\ lastReq.header.text = hash_hmac(lastReq.content, "whsec_other")
    /\ lastResp.status = 401

\* C3: a request with a valid signature enqueues exactly one message carrying
\* the event payload and is answered {status: "accepted"}; the receiver
\* writes nothing to the object store, classifies nothing, creates no Note
\* and changes no Association.
C3_ValidSignatureEnqueuesOnce ==
    [][ (IsRequest /\ SignatureMatches(lastReq'))
          => /\ jobs' = Append(jobs, [payload |-> lastReq'.content.json,
                                      attempts |-> 0, state |-> "ready"])
             /\ lastResp'.json = "accepted"
             /\ lastResp'.status \in 200..299
             /\ storage' = storage
             /\ notes' = notes
             /\ pivot' = pivot
             /\ workers' = workers ]_vars

C3_Witness ==
    /\ webhooks = 2
    /\ Len(jobs) = 2
    /\ SignatureMatches(lastReq)
    /\ lastResp.json = "accepted"
    /\ jobs[2] = [payload |-> lastReq.content.json, attempts |-> 0, state |-> "ready"]
    /\ jobs[1].state = "done"
    /\ notes # EmptyBag

\* every step of handle() has completed (or was skipped) in this delivery
PipelineCompleted(w) ==
    workers[w].steps = <<"transcript", "recording", "note", "analysis", "association">>

\* the worker w leaves handle() in this step
LeavesHandle(w) == workers[w].pc # "idle" /\ workers'[w].pc = "idle"

\* C4 (as stated): a message is acknowledged only after artifact persistence,
\* classification and the association update have completed for the
\* delivery; when the worker fails or is terminated earlier, the message
\* stays unacknowledged and is delivered again.
C4_AckOnlyAfterPipelineElseRedelivered ==
    [][ \A w \in DOMAIN workers :
          LeavesHandle(w) =>
             IF jobs'[workers[w].job].state = "done"
             THEN PipelineCompleted(w)
             ELSE jobs'[workers[w].job].state = "ready" ]_vars

\* C4 (amended): a message is acknowledged only after the whole pipeline has
\* completed for the delivery; when the worker fails or is terminated
\* earlier the message is not acknowledged, and it is delivered again only
\* while it has been attempted fewer than 3 times: after the failure of the
\* third attempt it is marked failed and never run again.
C4_AckOnlyAfterPipelineElseRetriedUpTo3 ==
    [][ /\ \A w \in DOMAIN workers :
             LeavesHandle(w) =>
                LET before == jobs[workers[w].job]
                    after == jobs'[workers[w].job]
                IN IF after.state = "done"
                   THEN PipelineCompleted(w)
                   ELSE /\ after.state \in {"ready", "failed"}
                        /\ before.attempts < 3 => after.state = "ready"
                        /\ after.state = "failed" => before.attempts = 3
        /\ \A j \in DOMAIN jobs :
             /\ (jobs[j].state = "ready" /\ jobs'[j].state = "reserved")
                   => jobs[j].attempts < 3
             /\ (jobs[j].state = "ready" /\ jobs'[j].state = "failed")
                   => jobs[j].attempts >= 3
             /\ jobs[j].state \in {"done", "failed"} => jobs'[j] = jobs[j] ]_vars

C4_Witness ==
    /\ Len(jobs) = 2
    /\ jobs[1].state = "failed" /\ jobs[1].attempts = 3
    /\ jobs[2].state = "done" /\ jobs[2].attempts = 2

\* C5: for an event without a conversation identifier the processor writes no
\* transcript or recording, creates no Note, does not invoke the
\* Classification Client, changes no Association, and acknowledges the
\* message, which is not delivered again.
C5_MissingIdAcknowledgedUnprocessed ==
    [][ \A w \in DOMAIN workers :
          ( /\ workers[w].pc # "idle"
            /\ workers'[w] # workers[w]
            /\ jobs[workers[w].job].payload.conversation_id = "" )
          => /\ storage' = storage
             /\ notes' = notes
             /\ pivot' = pivot
             /\ \A i \in DOMAIN workers'[w].steps : workers'[w].steps[i] # "analysis"
             /\ jobs'[workers[w].job].state = "done" ]_vars

(***************************************************************************)
(* Claims about the Classification Client (checked under SpecClassify)     *)
(***************************************************************************)
\* the i-th answer is an HTTP 5xx or a 429
IsServerErrorOrRateLimit(r) ==
    r.transport = "ok" /\ (r.status \in 500..599 \/ r.status = 429)

\* the i-th answer is a 4xx other than 429
IsClientErrorNot429(r) ==
    r.transport = "ok" /\ r.status \in 400..499 /\ r.status # 429

ClsReturned == cls.phase = "done" /\ cls.out.outcome = "return"

\* the level / score of a returned array, under either pair of key names
LevelOf(v) == IF "level" \in DOMAIN v THEN v.level ELSE v.interest_level
ScoreOf(v) == IF "score" \in DOMAIN v THEN v.score ELSE v.interest_score

\* C6: when every request is answered with a 5xx or a 429, exactly 3 requests
\* are issued and the default {unknown, 0, "analysis_failed"} is returned.
C6_ExhaustedRetriesDefault ==
    (cls.phase = "done" /\ \A i \in 1..3 : IsServerErrorOrRateLimit(cls.resps[i]))
        => /\ cls.out.outcome = "return"
           /\ cls.out.requests = 3
           /\ cls.out.value = [interest_level |-> "unknown", interest_score |-> 0,
                               rationale |-> "analysis_failed"]

C6_Witness ==
    /\ cls.phase = "done"
    /\ cls.resps[1].status = 500 /\ cls.resps[2].status = 429
    /\ cls.resps[3].status = 503
    /\ cls.out.requests = 3
    /\ cls.out.value.rationale = "analysis_failed"

\* C7: a 4xx other than 429 (after transient failures only) is the last
\* request, and the default {unknown, 0, "analysis_failed"} is returned.
C7_PermanentFailureNoRetry ==
    \A k \in 1..3 :
        ( /\ cls.phase = "done"
          /\ \A j \in 1..(k - 1) : IsServerErrorOrRateLimit(cls.resps[j])
          /\ IsClientErrorNot429(cls.resps[k]) )
        => /\ cls.out.outcome = "return"
           /\ cls.out.requests = k
           /\ cls.out.value = [interest_level |-> "unknown", interest_score |-> 0,
                               rationale |-> "analysis_failed"]

C7_Witness ==
    /\ cls.phase = "done"
    /\ cls.resps[1].status = 503 /\ cls.resps[2].status = 404
    /\ cls.out.requests = 2
    /\ cls.out.value.rationale = "analysis_failed"

\* C8: for every response the returned level is one of unknown, cold, warm,
\* hot and the score is an integer in 0..100; a response score above 100
\* yields 100, one below 0 yields 0, a level outside the four yields unknown.
C8_LevelAndScoreNormalized ==
    ClsReturned =>
        /\ LevelOf(cls.out.value) \in {"unknown", "cold", "warm", "hot"}
        /\ ScoreOf(cls.out.value) \in 0..100
        /\ (successful(cls.out.last) /\ cls.out.last.content.parses) =>
             LET c == cls.out.last.content IN
             /\ ("interest_score" \in c.keys /\ c.interest_score > 100)
                   => ScoreOf(cls.out.value) = 100
             /\ ("interest_score" \in c.keys /\ c.interest_score < 0)
                   => ScoreOf(cls.out.value) = 0
             /\ ("interest_level" \in c.keys
                   /\ c.interest_level \notin {"unknown", "cold", "warm", "hot"})
                   => LevelOf(cls.out.value) = "unknown"

\* the response was successful and its content did not parse, or parsed with
\* an interest_level outside the four values
ParseFailureOrOutOfEnum ==
    /\ ClsReturned
    /\ successful(cls.out.last)
    /\ \/ ~cls.out.last.content.parses
       \/ /\ "interest_level" \in cls.out.last.content.keys
          /\ cls.out.last.content.interest_level
                \notin {"unknown", "cold", "warm", "hot"}

C10_SameShapeOnEveryPath ==
    ClsReturned =>
        DOMAIN cls.out.value = {"interest_level", "interest_score", "rationale"}

(***************************************************************************)
(* Further claims about the Classification Client (under SpecClassify)     *)
(***************************************************************************)
\* C11: whatever the reasoning service does (server errors, rate limiting,
\* client errors, unparsable output, transport failure or timeout), the call
\* of the Classification Client returns a result: no failure leaves it as an
\* exception, so handle() goes on to the association update.
C11_NoClassificationFailurePropagates ==
    cls.phase = "done" => cls.out.outcome = "return"

\* C12: for an empty summary the result is the default unknown/0 and no
\* request is issued to the reasoning service.
C12_EmptySummaryNoRequest ==
    (cls.phase = "done" /\ cls.summary = "")
        => /\ cls.out.outcome = "return"
           /\ cls.out.requests = 0
           /\ LevelOf(cls.out.value) = "unknown"
           /\ ScoreOf(cls.out.value) = 0

(***************************************************************************)
(* Further claims about the processor (under Spec)                         *)
(***************************************************************************)
\* the worker w is past the recording step of an event that names a
\* recording, and the fetch failed: no recording path was set
RecordingFetchFailed(w) ==
    /\ workers[w].pc = "note"
    /\ jobs[workers[w].job].payload.recording_url # ""
    /\ workers[w].recordingPath = "<null>"

\* C13: when the recording fetch fails, the processor still creates the Note,
\* with recording_path null and transcript_path set when a transcript was
\* present, and goes on to the classification within the same delivery.
C13_RecordingFailureStillRecordsArtifact ==
    [][ \A w \in DOMAIN workers :
          ( /\ RecordingFetchFailed(w)
            /\ workers'[w] # workers[w]
            /\ workers'[w].pc # "idle" )
          => LET data == jobs[workers[w].job].payload IN
             /\ workers'[w].pc = "analysis"
             /\ jobs' = jobs
             /\ \E n \in BagToSet(notes') :
                  /\ CopiesIn(n, notes') = CopiesIn(n, notes) + 1
                  /\ n.conversation_id = data.conversation_id
                  /\ n.recording_path = "<null>"
                  /\ n.transcript_path =
                        IF data.transcript = "" THEN "<null>"
                        ELSE "calls/" \o today \o "/" \o data.conversation_id
                                \o "-transcript.txt" ]_vars

\* one delivery of the event c1 whose recording fetch failed has been
\* acknowledged: Note without recording, transcript stored, Association set
C13_Witness ==
    /\ Len(jobs) >= 1
    /\ jobs[1].payload.conversation_id = "c1"
    /\ jobs[1].state = "done" /\ jobs[1].attempts = 1
    /\ faults = 1
    /\ "calls/2026/11/06/c1-transcript.txt" \in DOMAIN storage
    /\ \E n \in BagToSet(notes) :
         /\ n.conversation_id = "c1"
         /\ n.recording_path = "<null>"
         /\ n.transcript_path = "calls/2026/11/06/c1-transcript.txt"
    /\ <<1, 2>> \in DOMAIN pivot
    /\ pivot[<<1, 2>>].last_conversation_id = "c1"

\* C14: when the storage write of the transcript or the creation of the Note
\* fails, the delivery is not acknowledged; in particular no Note is
\* committed whose transcript_path names a key that was never written to the
\* object store.
C14_NoArtifactWithUnwrittenTranscript ==
    \A n \in BagToSet(notes) :
        n.transcript_path # "<null>" => n.transcript_path \in DOMAIN storage

\* the lead and the listing of the event both exist
BothResolve(data) ==
    data.contact_id \in {1} /\ data.property_id \in {2}

\* the worker w acknowledges its job in this step
Acknowledges(w) ==
    /\ workers[w].pc = "handled"
    /\ workers'[w].pc = "idle"
    /\ jobs'[workers[w].job].state = "done"

\* C15: when the processor completes an event with conversation identifier c
\* whose lead L and listing P both resolve, Association(L, P) holds the level
\* and score the Classification Client returned for the event and
\* last_conversation_id = c.
C15_AssociationReflectsClassification ==
    [][ \A w \in DOMAIN workers :
          (Acknowledges(w) /\ BothResolve(jobs[workers[w].job].payload))
          => LET data == jobs[workers[w].job].payload
                 pair == <<data.contact_id, data.property_id>>
             IN /\ pair \in DOMAIN pivot'
                /\ pivot'[pair].interest_level = LevelOf(workers[w].analysis)
                /\ pivot'[pair].interest_score = ScoreOf(workers[w].analysis)
                /\ pivot'[pair].last_conversation_id = data.conversation_id ]_vars

\* the scenario: c1, answered hot/88, acknowledged
C15_Witness ==
    /\ Len(jobs) = 1
    /\ jobs[1].payload.conversation_id = "c1"
    /\ jobs[1].state = "done"
    /\ <<1, 2>> \in DOMAIN pivot
    /\ pivot[<<1, 2>>].interest_level = "hot"
    /\ pivot[<<1, 2>>].interest_score = 88
    /\ pivot[<<1, 2>>].last_conversation_id = "c1"

\* C16: the association update is create-or-update and idempotent: run for
\* an event whose lead and listing resolve, it succeeds whether or not the
\* Association existed, and when the Association already holds this run's
\* level, score and conversation identifier it holds them afterwards too.
C16_AssociationUpdateIdempotent ==
    [][ \A w \in DOMAIN workers :
          ( /\ workers[w].pc = "sync"
            /\ workers'[w] # workers[w]
            /\ faults' = faults
            /\ BothResolve(jobs[workers[w].job].payload) )
          => LET data == jobs[workers[w].job].payload
                 pair == <<data.contact_id, data.property_id>>
                 same(row) ==
                    /\ row.interest_level = LevelOf(workers[w].analysis)
                    /\ row.interest_score = ScoreOf(workers[w].analysis)
                    /\ row.last_conversation_id = data.conversation_id
             IN /\ workers'[w].pc = "handled"
                /\ pair \in DOMAIN pivot'
                /\ same(pivot'[pair])
                /\ DOMAIN pivot' = DOMAIN pivot \cup {pair}
                /\ (pair \in DOMAIN pivot /\ same(pivot[pair]))
                      => /\ pivot'[pair].interest_level = pivot[pair].interest_level
                         /\ pivot'[pair].interest_score = pivot[pair].interest_score
                         /\ pivot'[pair].last_conversation_id
                               = pivot[pair].last_conversation_id ]_vars

\* the same event delivered twice, each run acknowledged at its first attempt:
\* the first run created the Association, the second updated it
C16_Witness ==
    /\ Len(jobs) = 2
    /\ jobs[1].payload = jobs[2].payload
    /\ jobs[1].payload.conversation_id = "c1"
    /\ jobs[1].state = "done" /\ jobs[1].attempts = 1
    /\ jobs[2].state = "done" /\ jobs[2].attempts = 1
    /\ DOMAIN pivot = {<<1, 2>>}
    /\ pivot[<<1, 2>>].last_conversation_id = "c1"
    /\ pivot[<<1, 2>>].interest_level = "hot"

(***************************************************************************)
(* Claims about concurrent workers (under SpecConcurrent)                  *)
(***************************************************************************)
\* C17: there is at most one Association per (lead, listing) pair (pivot is
\* keyed by the pair: the unique index), and a worker that comes to write a
\* pair which another worker has created meanwhile updates that record: its
\* write neither fails nor adds a record.
C17_ConcurrentWorkersUpdateExistingPair ==
    [][ \A w \in DOMAIN workers :
          LET data == jobs[workers[w].job].payload
              pair == <<data.contact_id, data.property_id>>
          IN ( /\ workers[w].pc = "sync"
               /\ workers'[w] # workers[w]
               /\ faults' = faults
               /\ pair \in DOMAIN pivot )
             => /\ workers'[w].pc = "handled"
                /\ DOMAIN pivot' = DOMAIN pivot
                /\ pivot'[pair].last_conversation_id = data.conversation_id ]_vars

(***************************************************************************)
(* Claims about the association guard (under Spec)                         *)
(***************************************************************************)
\* C18: for an event whose lead or listing is absent or does not exist, the
\* classification and association steps of handle() change no Association
\* and do not fail: the delivery goes on to its acknowledgment.
C18_NoAssociationUnlessBothResolve ==
    [][ \A w \in DOMAIN workers :
          ( /\ workers[w].pc \in {"analysis", "sync"}
            /\ workers'[w] # workers[w]
            /\ faults' = faults
            /\ ~BothResolve(jobs[workers[w].job].payload) )
          => /\ pivot' = pivot
             /\ workers'[w].pc # "idle" ]_vars

(***************************************************************************)
(* Claims about the dynamic-variable provider (under SpecClientData)       *)
(***************************************************************************)
\* the step is a dynamic-variable request
IsClientDataRequest ==
    /\ provider' # provider
    /\ provider' = [provider EXCEPT !.req = provider'.req,
                                    !.resp = provider'.resp]

\* the lead and the listing named by the request both exist
RequestResolves(request) ==
    request.contact_id \in {1} /\ request.property_id \in {2}

\* C19: a request for a conversation identifier that was cached at call
\* initiation is answered with the cached variable set, without reading the
\* lead/listing store, while fewer than 15 minutes have passed since; after
\* that it is answered by recomputing from the lead and listing records.
C19_CachedWithinTtlElseRecomputed ==
    [][ IsClientDataRequest =>
          LET request == provider'.req
              resp == provider'.resp
          IN \A k \in DOMAIN provider.cache :
               provider.origin[k] = request.conversation_id =>
                 IF provider.clock - provider.cache[k].stored_at < 15
                 THEN /\ resp.status = 200
                      /\ resp.client_data = provider.cache[k].value
                      /\ resp.reads = {}
                 ELSE /\ resp.reads # {}
                      /\ RequestResolves(request) =>
                           /\ resp.status = 200
                           /\ resp.client_data =
                                [empty |-> FALSE, first_name |-> "Ann",
                                 address |-> "1 High St",
                                 contact_id |-> "1", property_id |-> "2"] ]_vars

\* the request finds no usable cache entry: none under its key, an expired
\* one, or an empty variable set
CacheMiss(request) ==
    \A k \in DOMAIN provider.cache :
        k = clientDataKey(request.conversation_id)
           => \/ provider.clock >= provider.cache[k].expires
              \/ provider.cache[k].value.empty

\* C20: on a cache miss, a request whose lead or listing does not exist ends
\* in a not-found error without client_data; a response that carries
\* client_data on a miss carries the whole variable set of both records.
C20_NotFoundOnMissingLeadOrListing ==
    [][ (IsClientDataRequest /\ CacheMiss(provider'.req)) =>
          LET request == provider'.req
              resp == provider'.resp
          IN /\ ~RequestResolves(request)
                  => (resp.status = 404 /\ ~resp.has_client_data)
             /\ resp.has_client_data
                  => /\ RequestResolves(request)
                     /\ resp.client_data.first_name # ""
                     /\ resp.client_data.address # ""
                     /\ resp.client_data.contact_id = "1"
                     /\ resp.client_data.property_id = "2" ]_vars

\* a request for an identifier never cached, naming an existing lead and a
\* listing that does not exist, was answered 404
C20_Witness ==
    /\ provider.req = [conversation_id |-> "c9", contact_id |-> 1, property_id |-> 9]
    /\ provider.resp.status = 404
    /\ ~provider.resp.has_client_data
    /\ provider.resp.reads = {"contacts", "properties"}

(***************************************************************************)
(* Claims about the call initiator (under SpecClientData)                  *)
(***************************************************************************)
\* the step is a call of initiateOutboundCall
IsInitiation ==
    /\ provider' # provider
    /\ provider'.req = provider.req
    /\ provider'.resp = provider.resp
    /\ provider'.clock = provider.clock

\* the numbers of the model that are no valid phone number: neither
\* libphonenumber nor the fallback pattern accepts them or their formatted form
InvalidNumbers == {"0412", "not a number"}

C22_RequestWithinTtlReturnsSubmittedSet ==
    [][ IsClientDataRequest =>
          \A k \in DOMAIN provider.cache :
             ( /\ provider.origin[k] = provider'.req.conversation_id
               /\ provider.clock - provider.cache[k].stored_at < 15 )
             => /\ provider'.resp.status = 200
                /\ provider'.resp.has_client_data
                /\ provider'.resp.client_data = provider.cache[k].value ]_vars

(***************************************************************************)
(* Further claims about concurrent workers (under SpecConcurrent)          *)
(***************************************************************************)
\* C23: in no reachable state are two workers inside handle() for the same
\* conversation identifier.
C23_SameConversationNeverConcurrent ==
    \A v, w \in DOMAIN workers :
        (v # w /\ workers[v].pc # "idle" /\ workers[w].pc # "idle")
          => jobs[workers[v].job].payload.conversation_id
                # jobs[workers[w].job].payload.conversation_id

\* another worker is inside handle() for an event of another conversation
\* that names the same lead and listing as the event of w
RacesOnSamePair(w) ==
    \E v \in DOMAIN workers :
        /\ v # w
        /\ workers[v].pc # "idle"
        /\ jobs[workers[v].job].payload.contact_id
              = jobs[workers[w].job].payload.contact_id
        /\ jobs[workers[v].job].payload.property_id
              = jobs[workers[w].job].payload.property_id
        /\ jobs[workers[v].job].payload.conversation_id
              # jobs[workers[w].job].payload.conversation_id

\* C24: when two events of different conversations for the same pair are
\* processed concurrently, the association update of each completes, and the
\* Association it leaves holds level, score and last_conversation_id of one
\* and the same event: those of the update that committed last.
C24_ConcurrentUpdatesBothCompleteLastWins ==
    [][ \A w \in DOMAIN workers :
          ( /\ workers[w].pc = "sync"
            /\ workers'[w] # workers[w]
            /\ faults' = faults
            /\ RacesOnSamePair(w) )
          => LET data == jobs[workers[w].job].payload
                 pair == <<data.contact_id, data.property_id>>
             IN /\ workers'[w].pc = "handled"
                /\ pair \in DOMAIN pivot'
                /\ pivot'[pair].interest_level = LevelOf(workers[w].analysis)
                /\ pivot'[pair].interest_score = ScoreOf(workers[w].analysis)
                /\ pivot'[pair].last_conversation_id = data.conversation_id ]_vars

C26_CacheClearedAfterProcessing ==
    [][ \A w \in DOMAIN workers :
          Acknowledges(w) =>
              CacheGet(provider'.cache,
                       cacheKey(Payload(w).conversation_id),
                       provider'.clock).null ]_vars

(***************************************************************************)
(* Claims about the order of effects within a delivery (SpecUnfailing)     *)
(***************************************************************************)
\* the stages of handle() in the order of lines 846-902
StageOrder == <<"transcript", "recording", "note", "analysis", "association">>

StagesBefore(stage) ==
    SubSeq(StageOrder, 1,
           (CHOOSE i \in 1..Len(StageOrder) : StageOrder[i] = stage) - 1)

\* the effects the worker w commits in this step
Commits(w, stage) ==
    CASE stage = "transcript" ->
            workers'[w].transcriptPath \notin {Null, workers[w].transcriptPath}
      [] stage = "recording" ->
            workers'[w].recordingPath \notin {Null, workers[w].recordingPath}
      [] stage = "note" -> notes' # notes
      [] stage = "analysis" ->
            /\ Len(workers'[w].steps) > Len(workers[w].steps)
            /\ workers'[w].steps[Len(workers[w].steps) + 1] = "analysis"
      [] stage = "association" -> pivot' # pivot

\* C27: within one delivery the effects are committed in the order transcript,
\* recording, Call Artifact, classification, association update,
\* acknowledgment: a step commits the effect of a stage only when all earlier
\* stages, and no later one, have been gone through in this delivery, and the
\* job is acknowledged only after all five.
C27_EffectsInFixedOrder ==
    [][ \A w \in DOMAIN workers :
          (workers[w].pc # "idle" /\ workers'[w] # workers[w]) =>
             /\ \A i \in 1..Len(StageOrder) :
                   Commits(w, StageOrder[i])
                      => workers[w].steps = StagesBefore(StageOrder[i])
             /\ jobs'[workers[w].job].state = "done"
                   => workers[w].steps = StageOrder ]_vars

\* an event with transcript, recording, summary, lead and listing has gone
\* through every stage and is acknowledged
C27_Witness ==
    /\ \E j \in DOMAIN jobs :
          jobs[j].state = "done" /\ jobs[j].payload.conversation_id = "c1"
    /\ TranscriptKey(today, "c1") \in DOMAIN storage
    /\ RecordingKey(today, "c1") \in DOMAIN storage
    /\ NotesFor("c1") # {}
    /\ <<1, 2>> \in DOMAIN pivot
    /\ pivot[<<1, 2>>].last_conversation_id = "c1"

(***************************************************************************)
(* Claims about the stored transcript (under SpecDays)                     *)
(***************************************************************************)
\* the dates under which the object store holds a transcript of conversation c
TranscriptDates(c) ==
    { i \in 1..Len(Dates) : TranscriptKey(Dates[i], c) \in DOMAIN storage }

\* C28: whatever the redeliveries and the changes of date between them, the
\* object store holds at most one transcript object per conversation
\* identifier.
C28_AtMostOneTranscriptPerConversation ==
    \A j \in DOMAIN jobs :
        Cardinality(TranscriptDates(jobs[j].payload.conversation_id)) <= 1

(***************************************************************************)
(* Claims about the association on redelivery (under SpecUnfailing)        *)
(***************************************************************************)
\* C29: the association update is not gated by the existence of a Call
\* Artifact: when a worker reaches the association update for an event whose
\* Call Artifact and Association already exist from an earlier run, the step
\* does not fail, and the Association then holds this run's interest_level
\* and interest_score, also when they differ from the earlier ones.
C29_RedeliveryOverwritesAssociation ==
    [][ \A w \in DOMAIN workers :
          LET data == Payload(w)
              pair == <<data.contact_id, data.property_id>>
          IN ( /\ workers[w].pc = "sync"
               /\ workers'[w] # workers[w]
               /\ NotesFor(data.conversation_id) # {}
               /\ pair \in DOMAIN pivot
               /\ pivot[pair].last_conversation_id = data.conversation_id )
             => /\ workers'[w].pc = "handled"
                /\ pivot'[pair].interest_level = LevelOf(workers[w].analysis)
                /\ pivot'[pair].interest_score = ScoreOf(workers[w].analysis)
                /\ pivot'[pair].last_conversation_id = data.conversation_id ]_vars

\* the event of c1 was acknowledged once, was delivered again, and its second
\* run, classified cold with score 100, has updated the Association that
\* existed when it was read
C29_Witness ==
    /\ Len(jobs) = 2
    /\ jobs[1].payload.conversation_id = "c1" /\ jobs[1].state = "done"
    /\ jobs[2].payload.conversation_id = "c1" /\ jobs[2].state = "reserved"
    /\ workers["w1"].pc = "handled"
    /\ workers["w1"].attached
    /\ LevelOf(workers["w1"].analysis) = "cold"
    /\ pivot[<<1, 2>>].interest_level = "cold"
    /\ pivot[<<1, 2>>].interest_score = 100

(***************************************************************************)
(* Claims about the owner of the Call Artifact (under SpecUnfailing)       *)
(***************************************************************************)
\* the Call Artifacts the step adds
NotesAdded == notes' (-) notes

\* C30: the step that records the Call Artifact adds exactly one, owned by
\* the lead when the lead identifier resolves and by the listing otherwise,
\* of type call_summary and with the summary as body; when neither resolves
\* it adds none. An event whose lead and listing both fail to resolve is
\* acknowledged only after its classification has run, and without a Call
\* Artifact.
C30_ArtifactOwnerLeadElseListing ==
    [][ \A w \in DOMAIN workers :
          LET data == Payload(w) IN
          /\ (workers[w].pc = "note" /\ workers'[w].pc = "analysis") =>
                IF data.contact_id \in ContactIds \/ data.property_id \in PropertyIds
                THEN /\ BagCardinality(NotesAdded) = 1
                     /\ \A n \in BagToSet(NotesAdded) :
                           /\ n.notable_type =
                                 IF data.contact_id \in ContactIds
                                 THEN "App\\Models\\Contact"
                                 ELSE "App\\Models\\Property"
                           /\ n.notable_id =
                                 IF data.contact_id \in ContactIds
                                 THEN data.contact_id ELSE data.property_id
                           /\ n.type = "call_summary"
                           /\ data.summary # "" => n.body = data.summary
                           /\ n.conversation_id = data.conversation_id
                ELSE notes' = notes
          /\ ( /\ Acknowledges(w)
               /\ data.contact_id \notin ContactIds
               /\ data.property_id \notin PropertyIds )
             => /\ \E i \in 1..Len(workers[w].steps) :
                       workers[w].steps[i] = "analysis"
                /\ NotesFor(data.conversation_id) = {}
                /\ notes' = notes ]_vars

\* the event of c4 (only the listing resolves) has a Call Artifact owned by
\* the listing, the event of c5 (neither resolves) is acknowledged without one
C30_Witness ==
    /\ Len(jobs) = 2
    /\ jobs[1].payload.conversation_id = "c4" /\ jobs[1].state = "done"
    /\ jobs[2].payload.conversation_id = "c5" /\ jobs[2].state = "done"
    /\ \E n \in NotesFor("c4") :
          /\ n.notable_type = "App\\Models\\Property" /\ n.notable_id = 2
          /\ n.type = "call_summary" /\ n.body = "call me back"
    /\ NotesFor("c5") = {}

(***************************************************************************)
(* Claims about the retry loop (under SpecClassify)                        *)
(***************************************************************************)
\* the i-th answer is a response that is not successful and is retried
RetryableFailure(resp) ==
    resp.transport = "ok" /\ ~successful(resp) /\ isRetryable(resp)

\* the first i - 1 answers are retryable failures and the i-th is successful
SucceedsAtAttempt(resps, i) ==
    /\ resps[i].transport = "ok" /\ successful(resps[i])
    /\ \A j \in 1..(i - 1) : RetryableFailure(resps[j])

\* C31: whatever the reasoning service answers, the retry loop ends after at
\* most 3 requests; every response before the last request was a failure
\* (no request follows a successful response); and when attempt k <= 3
\* succeeds after only retryable failures, exactly k requests are made and
\* the result is the normalized content of the k-th response, not the
\* default.
C31_RetryLoopBoundedAndStopsAtSuccess ==
    cls.phase = "done" =>
       /\ cls.out.requests \in 1..Len(backoff)
       /\ Len(backoff) = 3
       /\ \A j \in 1..(cls.out.requests - 1) : RetryableFailure(cls.resps[j])
       /\ \A k \in 1..Len(backoff) :
             SucceedsAtAttempt(cls.resps, k) =>
                /\ cls.out.requests = k
                /\ cls.out.outcome = "return"
                /\ cls.out.last = cls.resps[k]
                /\ cls.out.value = normalize(cls.resps[k].content)
                /\ cls.out.value # DefaultAnalysis
                /\ Len(cls.out.slept) = k - 1

\* the third request succeeds after a 429 and a 503, and its content is
\* returned normalized
C31_Witness ==
    /\ cls.phase = "done"
    /\ cls.resps[1].status = 429 /\ cls.resps[2].status = 503
    /\ SucceedsAtAttempt(cls.resps, 3)
    /\ cls.resps[3].content.parses
    /\ cls.resps[3].content.keys = KeyNames
    /\ cls.resps[3].content.interest_level = "hot"
    /\ cls.resps[3].content.interest_score = 88
    /\ cls.out.requests = 3
    /\ LevelOf(cls.out.value) = "hot" /\ ScoreOf(cls.out.value) = 88
    /\ cls.out.slept = <<1, 2>>

(***************************************************************************)
(* Claims about the isolation of the variable cache (under SpecClientData) *)
(***************************************************************************)
\* the response was served from the cache (no table was read)
ServedFromCache == provider'.resp.status = 200 /\ provider'.resp.reads = {}

\* C32: a request is served from the cache only with a variable set stored by
\* a call initiation that was given the same conversation identifier (here:
\* the same up to surrounding whitespace); in particular a request whose
\* conversation identifier is absent or blank is never served from the cache.
C32_CacheIsolatedPerConversation ==
    [][ (IsClientDataRequest /\ ServedFromCache) =>
          /\ trim(provider'.req.conversation_id) # ""
          /\ \E k \in DOMAIN provider.cache :
                /\ trim(provider.origin[k]) = trim(provider'.req.conversation_id)
                /\ provider'.resp.client_data = provider.cache[k].value ]_vars

(***************************************************************************)
(* Claims about the writes of the call initiator (under SpecClientData)    *)
(***************************************************************************)
\* the cache keys whose entry the step writes
KeysWritten ==
    { k \in DOMAIN provider'.cache :
        k \notin DOMAIN provider.cache \/ provider'.cache[k] # provider.cache[k] }

\* C33: a call initiation writes the cache only after the voice platform
\* accepted the call: when the submission fails (or the number is rejected)
\* the cache is left unchanged, and an entry is written only under the key of
\* a conversation identifier that was supplied, with nothing removed.
C33_CacheWrittenOnlyAfterAcceptance ==
    [][ IsInitiation =>
          /\ provider'.call.outcome # "returned"
                => provider'.cache = provider.cache
          /\ KeysWritten # {}
                => /\ provider'.call.outcome = "returned"
                   /\ provider'.call.posted
          /\ \A k \in KeysWritten :
                /\ provider'.origin[k] # ""
                /\ k = cacheKey(provider'.origin[k])
                /\ provider'.cache[k].stored_at = provider.clock
          /\ DOMAIN provider.cache \subseteq DOMAIN provider'.cache ]_vars

\* a submission failed at minute 10 while the cache held the entry an
\* accepted call had written at minute 0: the entry is as it was written
C33_Witness ==
    /\ provider.call.outcome = "RuntimeException"
    /\ provider.call.posted
    /\ provider.clock = 10
    /\ DOMAIN provider.cache = {"el_client_data:c1"}
    /\ provider.cache["el_client_data:c1"].stored_at = 0

(***************************************************************************)
(* Claims about the Dashboard (under SpecDashboard)                        *)
(***************************************************************************)
\* both fetches yielded a body and the run did not enter the catch block
BothFetchesSucceeded ==
    /\ dash.r1.settled = "fulfilled" /\ dash.r1.body # JsNull
    /\ dash.r2.settled = "fulfilled"

\* C34 (as stated): once the effect has finished, either hello is the
\* message (or 'OK') and health is the /test response, or hello is 'Backend
\* not reachable' and health is null; the states 'hello = message, health =
\* null' and 'hello = Backend not reachable, health set' are unreachable.
C34_HealthLoadAllOrNothing ==
    dash.pc = "done" =>
       /\ \/ (BothFetchesSucceeded /\ dash.hello = MessageOrOK(dash.r1.body)
                                   /\ dash.health = dash.r2.body)
          \/ (dash.hello = "Backend not reachable" /\ dash.health = JsNull)
       /\ ~(dash.hello # "Backend not reachable" /\ dash.health = JsNull)
       /\ ~(dash.hello = "Backend not reachable" /\ dash.health # JsNull)

\* C34 (amended): once the effect has finished, either both fetches succeeded
\* and hello is the message (or 'OK') with health equal to the /test
\* response, null included, or a fetch failed and hello is 'Backend not
\* reachable' and health is null; a failure of the second fetch replaces the
\* message set after the first.
C34_HealthLoadFollowsOutcome ==
    dash.pc = "done" =>
       IF BothFetchesSucceeded
       THEN /\ dash.hello = MessageOrOK(dash.r1.body)
            /\ dash.health = dash.r2.body
       ELSE /\ dash.hello = "Backend not reachable"
            /\ dash.health = JsNull

\* the first fetch returned a message and the second failed: the message
\* that had been set is replaced
C34_Witness ==
    /\ dash.pc = "done"
    /\ dash.r1.settled = "fulfilled" /\ dash.r1.body # JsNull
    /\ dash.r1.body.message = "Hello from API"
    /\ dash.r2.settled = "rejected"
    /\ dash.hello = "Backend not reachable"
    /\ dash.health = JsNull

====
